---- MODULE Spec2Model ----
(***************************************************************************)
(* Model of packages/wasm/src/index.ts: the rollup plugin `wasm`.          *)
(*                                                                         *)
(*   - load / transform / generateBundle are the plugin hooks; `copies`    *)
(*     is the closure's registry of assets that are copied, not inlined.   *)
(*   - _loadWasmModule is the runtime bootstrap the banner injects.        *)
(*                                                                         *)
(* Paths are sequences of segments (the last segment of an id is its       *)
(* extension), buffers are sequences of bytes, JS strings are sequences of *)
(* char codes, base64 text is a sequence of sextets with PadChar for '='.  *)
(***************************************************************************)
EXTENDS Integers, Sequences, FiniteSets, TLC

\* ------------------------------------------------------------------ bounds

\* longest file, in bytes
MaxLen == 2
\* largest configured maxFileSize
MaxLimit == 1

\* ------------------------------------------------------------- the universe

WasmA == <<"a", "wasm">>
WasmB == <<"b", "wasm">>
\* "wasm.js": contains the word but does not end in ".wasm"
PlainJs == <<"wasm", "js">>
Ids == {WasmA, WasmB, PlainJs}

Bytes == 0..255
FillBytes == {0, 255}
\* a file of n bytes: b, b+85, b+170, ... (mod 256)
Payload(n, b) == [i \in 1..n |-> (b + 85 * (i - 1)) % 256]
Payloads == {Payload(n, b) : n \in 0..MaxLen, b \in FillBytes}

\* what the bundler hands to transform for a module no load hook produced
DefaultSource == <<47, 47>>

\* an absent value (null / undefined) and a present one
None == <<>>
Some(x) == <<x>>

\* no transform output yet for the code last loaded
NoResult == [kind |-> "none"]

VARIABLES
    maxFileSize,    \* options.maxFileSize
    syncFiles,      \* sync.map(path.resolve), as a set
    publicPath,     \* options.publicPath, the directory segments it names
    copies,         \* the copy registry: id -> destination
    stage,          \* per id: "none" | "loaded" | "failed" | "transformed"
    buffer,         \* per id: the bytes the last load read, None if none
    loaded,         \* per id: the string the last load resolved to, None if null
    emitted,        \* per id: what transform returned for the code last loaded
    gb,             \* the generateBundle call in progress or last finished
    rt              \* the _loadWasmModule call in progress or last finished

vars == <<maxFileSize, syncFiles, publicPath, copies, stage, buffer, loaded,
          emitted, gb, rt>>
config == <<maxFileSize, syncFiles, publicPath>>

\* ------------------------------------------------------------ pure helpers

\* /\.wasm$/.test(id)
IsWasm(id) == id[Len(id)] = "wasm"

\* buffer.toString('binary'): one char per byte, char code = byte
toStringBinary(buf) == [i \in 1..Len(buf) |-> buf[i]]

\* Buffer.from(code, 'binary'): one byte per char, byte = char code & 0xFF
bufferFromBinary(code) == [i \in 1..Len(code) |-> code[i] % 256]

PadChar == 64

\* buf.toString('base64')
RECURSIVE toStringBase64(_)
toStringBase64(buf) ==
    IF Len(buf) = 0 THEN <<>>
    ELSE IF Len(buf) = 1 THEN
        <<buf[1] \div 4, (buf[1] % 4) * 16, PadChar, PadChar>>
    ELSE IF Len(buf) = 2 THEN
        <<buf[1] \div 4, (buf[1] % 4) * 16 + buf[2] \div 16,
          (buf[2] % 16) * 4, PadChar>>
    ELSE
        <<buf[1] \div 4, (buf[1] % 4) * 16 + buf[2] \div 16,
          (buf[2] % 16) * 4 + buf[3] \div 64, buf[3] % 64>>
        \o toStringBase64(SubSeq(buf, 4, Len(buf)))

\* Buffer.from(src, 'base64') and the atob/charCodeAt loop
RECURSIVE bufferFromBase64(_)
bufferFromBase64(src) ==
    IF Len(src) < 4 THEN <<>>
    ELSE LET a == src[1]
             b == src[2]
             c == src[3]
             d == src[4]
             rest == bufferFromBase64(SubSeq(src, 5, Len(src)))
         IN  IF c = PadChar THEN <<a * 4 + b \div 16>>
             ELSE IF d = PadChar THEN
                 <<a * 4 + b \div 16, (b % 16) * 16 + c \div 4>>
             ELSE <<a * 4 + b \div 16, (b % 16) * 16 + c \div 4,
                    (c % 4) * 64 + d>> \o rest

\* createHash('sha1').update(buffer).digest('hex').substr(0, 16): the digest
\* is abstract, a value that names the bytes it was computed from (equal
\* bytes give equal digests, and no two files of the model collide)
sha1Hex16(buf) == [sha1 |-> buf]

\* publicPath + hash + '.wasm'
Destination(prefix, buf) == [dir |-> prefix, file |-> <<sha1Hex16(buf), "wasm">>]

\* mutant: the comparison with the limit is >= instead of >
ExceedsLimitInclusive(limit, size) == (limit # 0 /\ size >= limit) \/ limit = 0

\* (maxFileSize && stats.size > maxFileSize) || maxFileSize === 0
ExceedsLimit(limit, size) == (limit # 0 /\ size > limit) \/ limit = 0

\* ------------------------------------------------------------------- load

EmptyRegistry == [k \in {} |-> None]

\* mutant: the registry is replaced by the one entry written
RegistryPutAlone(cp, id, dest) == [k \in {id} |-> dest]

\* copies[id] = dest
RegistryPut(cp, id, dest) ==
    [k \in DOMAIN cp \cup {id} |-> IF k = id THEN dest ELSE cp[k]]

\* mutant: the check of the sync list is missing
loadCopiesSyncUnchecked(cp, id, buf) ==
    IF ExceedsLimit(maxFileSize, Len(buf))
    THEN RegistryPut(cp, id, Destination(publicPath, buf))
    ELSE cp

\* mutant: the check of the sync list is inverted
loadCopiesSyncInverted(cp, id, buf) ==
    IF ExceedsLimit(maxFileSize, Len(buf))
    THEN IF id \in syncFiles
         THEN RegistryPut(cp, id, Destination(publicPath, buf))
         ELSE cp
    ELSE cp

\* the body of the .then callback of load: the registry it leaves
\* (stats.size is the length of the buffer read)
loadCopies(cp, id, buf) ==
    IF ExceedsLimit(maxFileSize, Len(buf))
    THEN IF id \notin syncFiles
         THEN RegistryPut(cp, id, Destination(publicPath, buf))
         ELSE cp
    ELSE cp

\* load(id): stat and read succeed with buf; the bundler drops the output
\* of the transform of the code it had loaded before
Load(id, buf) ==
    /\ IF ~IsWasm(id)
       THEN /\ loaded' = [loaded EXCEPT ![id] = None]
            /\ UNCHANGED <<copies, buffer>>
       ELSE /\ copies' = loadCopies(copies, id, buf)
            /\ buffer' = [buffer EXCEPT ![id] = Some(buf)]
            /\ loaded' = [loaded EXCEPT ![id] = Some(toStringBinary(buf))]
    /\ stage' = [stage EXCEPT ![id] = "loaded"]
    /\ emitted' = [emitted EXCEPT ![id] = NoResult]
    /\ UNCHANGED <<config, gb, rt>>

\* load(id): fs.stat or fs.readFile fails, the returned promise rejects
LoadFail(id) ==
    /\ IsWasm(id)
    /\ stage' = [stage EXCEPT ![id] = "failed"]
    /\ buffer' = [buffer EXCEPT ![id] = None]
    /\ loaded' = [loaded EXCEPT ![id] = None]
    /\ emitted' = [emitted EXCEPT ![id] = NoResult]
    /\ UNCHANGED <<config, copies, gb, rt>>

\* -------------------------------------------------------------- transform

NullResult == [kind |-> "null"]
SyncError == [kind |-> "error", message |-> "non-inlined files can not be sync."]
\* export default function(imports){return _loadWasmModule(s, f, src, imports)}
Module(s, f, src) ==
    [kind |-> "module", params |-> <<"imports">>, callee |-> "_loadWasmModule",
     sync |-> s, filepath |-> f, src |-> src]

\* mutant: the sync flag is not passed on to the emitted module
transformResultSyncFlagLost(cp, code, id) ==
    IF code # <<>> /\ IsWasm(id)
    THEN IF id \in DOMAIN cp
         THEN Module(0, Some(cp[id]), None)
         ELSE Module(0, None, Some(toStringBase64(bufferFromBinary(code))))
    ELSE NullResult

\* transform(code, id): what it returns, or the error it raises
transformResult(cp, code, id) ==
    IF code # <<>> /\ IsWasm(id)
    THEN LET isSync == id \in syncFiles
             filepath == IF id \in DOMAIN cp THEN Some(cp[id]) ELSE None
         IN  IF filepath = None
             THEN Module(IF isSync THEN 1 ELSE 0, None,
                         Some(toStringBase64(bufferFromBinary(code))))
             ELSE IF isSync THEN SyncError
                  ELSE Module(0, filepath, None)
    ELSE NullResult

\* the code the bundler passes for id: the string load returned, or the default loader output
CodeOf(id) == IF loaded[id] = None THEN DefaultSource ELSE loaded[id][1]

Transform(id) ==
    /\ stage[id] \in {"loaded", "transformed"}
    /\ emitted' = [emitted EXCEPT ![id] = transformResult(copies, CodeOf(id), id)]
    /\ stage' = [stage EXCEPT ![id] = "transformed"]
    /\ UNCHANGED <<config, copies, buffer, loaded, gb, rt>>

\* --------------------------------------------------------- generateBundle

\* the outputOptions the bundler may pass
OutputOptions ==
    { [dir |-> Some(<<"dist">>), file |-> None],
      [dir |-> None, file |-> Some(<<"dist", "bundle.js">>)],
      [dir |-> None, file |-> None] }

\* path.dirname(p)
dirname(p) == SubSeq(p, 1, Len(p) - 1)

\* path.join(base, output), output a destination of the registry
joinOutput(base, output) == base \o output.dir \o <<output.file>>

NoTasks == [k \in {} |-> None]

\* the copies of a call that have not ended yet
Running(tasks) == {k \in DOMAIN tasks : tasks[k].st \in {"makeDir", "copying"}}
Failed(tasks) ==
    {k \in DOMAIN tasks : tasks[k].st \in {"makeDirError", "readError", "writeError"}}
Finished(tasks) == {k \in DOMAIN tasks : tasks[k].st = "finished"}

\* a call is in flight until its promise has settled and its streams have ended
InFlight == gb.result = "pending" \/ Running(gb.tasks) # {}

\* mutant: Promise.allSettled, which waits for every task and never rejects
promiseAllSettled(result, tasks) ==
    IF result # "pending" THEN result
    ELSE IF Finished(tasks) \cup Failed(tasks) = DOMAIN tasks THEN "resolved"
    ELSE "pending"

\* await Promise.all(...): settles once, rejected by the first task that
\* fails, resolved when every task has finished
promiseAll(result, tasks) ==
    IF result # "pending" THEN result
    ELSE IF Failed(tasks) # {} THEN "rejected"
    ELSE IF Finished(tasks) = DOMAIN tasks THEN "resolved"
    ELSE "pending"

\* generateBundle(outputOptions) up to its first await; the bundler starts
\* a call when the one before has ended
GenerateBundle(opts) ==
    /\ ~InFlight
    /\ IF opts.dir = None /\ opts.file = None
       THEN gb' = [pc |-> "returned", base |-> None, tasks |-> NoTasks,
                   result |-> "resolved"]
       ELSE gb' = [pc |-> "makeDir",
                   base |-> Some(IF opts.dir # None THEN opts.dir[1]
                                 ELSE dirname(opts.file[1])),
                   tasks |-> NoTasks, result |-> "pending"]
    /\ UNCHANGED <<config, copies, stage, buffer, loaded, emitted, rt>>

\* Object.keys(copies).map(async (name) => ...) up to each task's first await
startTasks(cp, base) ==
    [k \in DOMAIN cp |->
        [src |-> k, output |-> cp[k], dest |-> joinOutput(base, cp[k]),
         st |-> "makeDir"]]

\* await makeDir(base) ends
MakeDirBase(ok) ==
    /\ gb.pc = "makeDir"
    /\ IF ok
       THEN LET tasks == startTasks(copies, gb.base[1])
            IN  gb' = [gb EXCEPT !.pc = "copying", !.tasks = tasks,
                                 !.result = promiseAll(gb.result, tasks)]
       ELSE gb' = [gb EXCEPT !.pc = "returned", !.result = "rejected"]
    /\ UNCHANGED <<config, copies, stage, buffer, loaded, emitted, rt>>

\* one task of the call changes state, and Promise.all sees it
taskStep(g, k, st) ==
    LET tasks == [g.tasks EXCEPT ![k].st = st]
    IN  [g EXCEPT !.tasks = tasks, !.result = promiseAll(g.result, tasks)]

\* await makeDir(outputDirectory) ends; on success copy(name, dest) opens
\* its streams
TaskMakeDir(k, ok) ==
    /\ gb.pc = "copying"
    /\ k \in DOMAIN gb.tasks
    /\ gb.tasks[k].st = "makeDir"
    /\ gb' = taskStep(gb, k, IF ok THEN "copying" ELSE "makeDirError")
    /\ UNCHANGED <<config, copies, stage, buffer, loaded, emitted, rt>>

\* copy: write.on('finish', resolve)
CopyFinish(k) ==
    /\ gb.pc = "copying"
    /\ k \in DOMAIN gb.tasks
    /\ gb.tasks[k].st = "copying"
    /\ gb' = taskStep(gb, k, "finished")
    /\ UNCHANGED <<config, copies, stage, buffer, loaded, emitted, rt>>

\* copy: read.on('error', reject) / write.on('error', reject)
CopyError(k, kind) ==
    /\ gb.pc = "copying"
    /\ k \in DOMAIN gb.tasks
    /\ gb.tasks[k].st = "copying"
    /\ gb' = taskStep(gb, k, kind)
    /\ UNCHANGED <<config, copies, stage, buffer, loaded, emitted, rt>>

\* -------------------------------------------------------- _loadWasmModule

\* a promise: its state, its value or reason, and whether resolve or reject
\* has been called on it (after which further calls do nothing)
NoPromise == [state |-> "none", value |-> "none", alreadyResolved |-> FALSE]
PendingPromise == [state |-> "pending", value |-> "none", alreadyResolved |-> FALSE]
RejectedPromise(reason) ==
    [state |-> "rejected", value |-> reason, alreadyResolved |-> TRUE]

\* reject(reason)
rejectPromise(p, reason) ==
    IF p.alreadyResolved THEN p ELSE RejectedPromise(reason)

\* resolve(q), q a promise: p is locked in to q and settles as q does
resolvePromise(p, q) ==
    IF p.alreadyResolved THEN p
    ELSE [state |-> q.state, value |-> q.value, alreadyResolved |-> TRUE]

\* mutant: _instantiateOrCompile compiles whether or not imports are given
instantiateOrCompileNoImports(imports, stream) ==
    IF stream THEN "compileStreaming" ELSE "compile"

\* _instantiateOrCompile(source, imports, stream): the WebAssembly function
\* it calls
instantiateOrCompile(imports, stream) ==
    IF imports
    THEN IF stream THEN "instantiateStreaming" ELSE "instantiate"
    ELSE IF stream THEN "compileStreaming" ELSE "compile"

\* what a WebAssembly function yields when it succeeds: instantiate on bytes
\* or on a response yields the pair {module, instance}
Product(api) ==
    CASE api \in {"instantiate", "instantiateStreaming"} -> "ResultObject"
      [] api \in {"compile", "compileStreaming"} -> "Module"
      [] api = "new Instance" -> "Instance"
      [] api = "new Module" -> "Module"

RtIdle ==
    [pc |-> "idle", id |-> None, sync |-> 0, filepath |-> None, src |-> None,
     imports |-> FALSE, isNode |-> FALSE, path |-> "none", ret |-> "none",
     value |-> "none", api |-> "none", buf |-> None, readError |-> FALSE,
     outer |-> NoPromise, wasm |-> NoPromise]

\* mutant: the callback of fs.readFile resolves before it rejects
readFileCallbackResolveFirst(p, error, inner) ==
    IF error THEN rejectPromise(resolvePromise(p, inner), "ReadError")
    ELSE resolvePromise(p, inner)

\* the callback of fs.readFile: reject(error) when there is one, and in
\* every case resolve(_instantiateOrCompile(buffer, imports, false))
readFileCallback(p, error, inner) ==
    LET p1 == IF error THEN rejectPromise(p, "ReadError") ELSE p
    IN  resolvePromise(p1, inner)

\* _loadWasmModule(sync, filepath, src, imports) up to its return; `valid`
\* says whether the bytes compile and link (decides new WebAssembly.Module)
loadWasmModule(m, imports, isNode, valid) ==
    LET call == [RtIdle EXCEPT !.sync = m.sync, !.filepath = m.filepath,
                               !.src = m.src, !.imports = imports,
                               !.isNode = isNode]
    IN  IF m.filepath # None /\ isNode
        THEN [call EXCEPT !.pc = "readFile", !.path = "readFile",
                          !.ret = "promise", !.outer = PendingPromise]
        ELSE IF m.filepath # None
        THEN [call EXCEPT !.pc = "wasm", !.path = "fetch", !.ret = "promise",
                          !.api = instantiateOrCompile(imports, TRUE),
                          !.wasm = PendingPromise]
        ELSE LET buf == bufferFromBase64(m.src[1])
                 decoded == [call EXCEPT !.path = "inline", !.buf = Some(buf)]
             IN  IF m.sync # 0
                 THEN IF ~valid
                      THEN [decoded EXCEPT !.pc = "done", !.ret = "throw",
                                           !.api = "new Module",
                                           !.value = "CompileError"]
                      ELSE LET api == IF imports THEN "new Instance"
                                      ELSE "new Module"
                           IN  [decoded EXCEPT !.pc = "done", !.ret = "value",
                                               !.api = api,
                                               !.value = Product(api)]
                 ELSE [decoded EXCEPT !.pc = "wasm", !.ret = "promise",
                                      !.api = instantiateOrCompile(imports, FALSE),
                                      !.wasm = PendingPromise]

\* the default export of the module emitted for id is called
Invoke(id, imports, isNode, valid) ==
    /\ rt.pc \in {"idle", "done"}
    /\ emitted[id].kind = "module"
    /\ rt' = [loadWasmModule(emitted[id], imports, isNode, valid)
                  EXCEPT !.id = Some(id)]
    /\ UNCHANGED <<config, copies, stage, buffer, loaded, emitted, gb>>

\* _loadWasmModule is called with arguments of the caller's choice
CallBootstrap(s, f, src, imports, isNode, valid) ==
    /\ rt.pc \in {"idle", "done"}
    /\ f # None \/ src # None
    /\ rt' = loadWasmModule([sync |-> s, filepath |-> f, src |-> src],
                            imports, isNode, valid)
    /\ UNCHANGED <<config, copies, stage, buffer, loaded, emitted, gb>>

\* fs.readFile calls back, with an error or with the buffer
ReadFileCallback(error) ==
    /\ rt.pc = "readFile"
    /\ LET api == instantiateOrCompile(rt.imports, FALSE)
           \* on the undefined buffer the WebAssembly function returns a
           \* promise that is already rejected
           inner == IF error THEN RejectedPromise("TypeError")
                    ELSE PendingPromise
       IN  rt' = [rt EXCEPT !.pc = IF error THEN "done" ELSE "wasm",
                            !.readError = error,
                            !.api = api,
                            !.wasm = inner,
                            !.outer = readFileCallback(rt.outer, error, inner)]
    /\ UNCHANGED <<config, copies, stage, buffer, loaded, emitted, gb>>

\* the pending WebAssembly promise settles; a promise locked in to it follows
WasmSettle(ok) ==
    /\ rt.pc = "wasm"
    /\ LET settled == IF ok
                      THEN [state |-> "fulfilled", value |-> Product(rt.api),
                            alreadyResolved |-> TRUE]
                      ELSE RejectedPromise("CompileError")
       IN  rt' = [rt EXCEPT !.pc = "done",
                            !.wasm = settled,
                            !.outer = IF rt.outer.state = "pending"
                                      THEN settled ELSE rt.outer]
    /\ UNCHANGED <<config, copies, stage, buffer, loaded, emitted, gb>>

\* the promise the call returned
Returned == IF rt.path = "readFile" THEN rt.outer ELSE rt.wasm

\* ------------------------------------------------------------------- build

Init ==
    /\ maxFileSize \in 0..MaxLimit
    /\ syncFiles \in SUBSET {WasmA}
    /\ publicPath \in {<<>>, <<"assets">>}
    /\ copies = EmptyRegistry
    /\ stage = [id \in Ids |-> "none"]
    /\ buffer = [id \in Ids |-> None]
    /\ loaded = [id \in Ids |-> None]
    /\ emitted = [id \in Ids |-> NoResult]
    /\ gb = [pc |-> "idle", base |-> None, tasks |-> NoTasks, result |-> "none"]
    /\ rt = RtIdle

\* the build phase: the bundler loads and transforms modules in any order
Next ==
    \/ \E id \in Ids, buf \in Payloads : Load(id, buf)
    \/ \E id \in Ids : LoadFail(id)
    \/ \E id \in Ids : Transform(id)

Spec == Init /\ [][Next]_vars

\* ------------------------------------------------- properties of the build

\* the bytes of an asset that load has read
BytesOf(id) == buffer[id][1]

\* the size that makes an asset too big to inline, as the options document it
Oversize(size) == (maxFileSize > 0 /\ size > maxFileSize) \/ maxFileSize = 0

EmittedCopied(id) ==
    /\ id \in DOMAIN copies
    /\ emitted[id].kind = "module"
    /\ emitted[id].filepath = Some(copies[id])
    /\ emitted[id].src = None

EmittedInlined(id) ==
    /\ id \notin DOMAIN copies
    /\ emitted[id].kind = "module"
    /\ emitted[id].filepath = None
    /\ emitted[id].src = Some(toStringBase64(BytesOf(id)))

\* C1: every .wasm asset that went through load and then transform is either
\* copied (registry entry, module passes the destination, src null) or
\* inlined (no entry, module passes filepath null and the base64 of its
\* bytes), exactly one of the two.
C1_CopiedXorInlined ==
    \A id \in Ids :
        (IsWasm(id) /\ stage[id] = "transformed") =>
            /\ EmittedCopied(id) \/ EmittedInlined(id)
            /\ ~(EmittedCopied(id) /\ EmittedInlined(id))

\* C2 as stated: a sync asset over the inline threshold ends load and
\* transform in the sync error, and no module is emitted for it.
C2_SyncOversizeFails ==
    \A id \in syncFiles :
        (stage[id] = "transformed" /\ Oversize(Len(BytesOf(id)))) =>
            emitted[id] = SyncError

\* C2 amended: a sync asset over the inline threshold never ends in the sync
\* error; load registers no copy for it and transform emits the module with
\* sync = 1, filepath null and the base64 of its bytes, except that nothing
\* is emitted for an asset of zero bytes.
C2_SyncOversizeInlined ==
    \A id \in syncFiles :
        (stage[id] = "transformed" /\ Oversize(Len(BytesOf(id)))) =>
            /\ id \notin DOMAIN copies
            /\ emitted[id] # SyncError
            /\ IF Len(BytesOf(id)) > 0
               THEN emitted[id] =
                        Module(1, None, Some(toStringBase64(BytesOf(id))))
               ELSE emitted[id] = NullResult

C2_Witness ==
    \E id \in syncFiles :
        /\ stage[id] = "transformed"
        /\ maxFileSize > 0
        /\ Len(BytesOf(id)) > maxFileSize
        /\ emitted[id].kind = "module"
        /\ emitted[id].sync = 1

LoadStep(id) ==
    /\ stage'[id] = "loaded"
    /\ buffer'[id] # None
    /\ stage[id] # "loaded" \/ buffer[id] # buffer'[id]

\* C4: for an asset outside the sync set, load writes its registry entry if
\* and only if maxFileSize = 0 or its size is strictly greater than
\* maxFileSize; otherwise it leaves the registry alone.
C4_RegisteredIffExceeds ==
    [][\A id \in Ids \ syncFiles :
          LoadStep(id) =>
              LET size == Len(buffer'[id][1])
              IN  IF maxFileSize = 0 \/ size > maxFileSize
                  THEN /\ id \in DOMAIN copies'
                       /\ copies'[id] = Destination(publicPath, buffer'[id][1])
                  ELSE /\ copies' = copies
                       /\ (id \notin DOMAIN copies => id \notin DOMAIN copies')
      ]_vars

C4_Witness ==
    /\ maxFileSize > 0
    /\ \E id1, id2 \in Ids \ syncFiles :
           /\ stage[id1] = "loaded" /\ stage[id2] = "loaded"
           /\ buffer[id1] # None /\ buffer[id2] # None
           /\ Len(BytesOf(id1)) = maxFileSize
           /\ Len(BytesOf(id2)) = maxFileSize + 1
           /\ id1 \notin DOMAIN copies
           /\ id2 \in DOMAIN copies

\* C7 as stated: transform emits a module that calls _loadWasmModule for
\* every loaded .wasm asset of any length, and returns null only for paths
\* that do not end in .wasm.
C7_EveryWasmEmitsModule ==
    \A id \in Ids :
        stage[id] = "transformed" =>
            /\ IsWasm(id) =>
                   /\ emitted[id].kind = "module"
                   /\ emitted[id].params = <<"imports">>
                   /\ emitted[id].callee = "_loadWasmModule"
            /\ emitted[id] = NullResult => ~IsWasm(id)

\* ------------------------------------------------------------- the bundle

\* the file versions the assets go through while bundles are written:
\* empty, and two different files of the greatest length
BundlePayloads == {Payload(n, b) : n \in {0, MaxLen}, b \in FillBytes}

InitBundle == Init /\ publicPath = <<"assets">>

\* builds and output phases of one plugin instance, in any interleaving
NextBundle ==
    \/ \E id \in {WasmA, WasmB}, buf \in BundlePayloads : Load(id, buf)
    \/ \E id \in {WasmA, WasmB} : Transform(id)
    \/ \E opts \in OutputOptions : GenerateBundle(opts)
    \/ \E ok \in BOOLEAN : MakeDirBase(ok)
    \/ \E k \in Ids, ok \in BOOLEAN : TaskMakeDir(k, ok)
    \/ \E k \in Ids : CopyFinish(k)
    \/ \E k \in Ids, kind \in {"readError", "writeError"} : CopyError(k, kind)

SpecBundle == InitBundle /\ [][NextBundle]_vars

\* ------------------------------------------------------------ the runtime

\* the arguments of direct calls of the bootstrap
DirectPaths == {None, Some(Destination(<<>>, Payload(MaxLen, 0)))}
DirectSources == {None, Some(toStringBase64(Payload(MaxLen, 255)))}

\* one asset is built, rebuilt and run, in a server-like or a browser-like
\* environment
NextRuntime ==
    \/ \E buf \in Payloads : Load(WasmA, buf)
    \/ Transform(WasmA)
    \/ \E imports, isNode, valid \in BOOLEAN : Invoke(WasmA, imports, isNode, valid)
    \/ \E s \in {0, 1}, f \in DirectPaths, src \in DirectSources,
          imports, isNode, valid \in BOOLEAN :
              CallBootstrap(s, f, src, imports, isNode, valid)
    \/ \E error \in BOOLEAN : ReadFileCallback(error)
    \/ \E ok \in BOOLEAN : WasmSettle(ok)

SpecRuntime == Init /\ [][NextRuntime]_vars

\* ----------------------------------------------- properties of the runtime

Instantiates(api) == api \in {"instantiate", "instantiateStreaming", "new Instance"}
Streams(api) == api \in {"instantiateStreaming", "compileStreaming"}
\* a result that holds an instance bound to the imports
HasInstance(v) == v \in {"Instance", "ResultObject"}

\* C8: calling the default export emitted for an asset completes
\* synchronously, with a module or an instance and no promise, if and only
\* if the asset is in the sync set and was inlined; in every other case it
\* returns a promise. (The synchronous call throws when the bytes do not
\* compile.)
C8_SyncIffSyncAndInlined ==
    rt.id # None =>
        LET syncInlined == rt.id[1] \in syncFiles /\ rt.filepath = None
        IN  /\ rt.ret = "promise" <=> ~syncInlined
            /\ rt.ret \in {"value", "throw"} <=> syncInlined
            /\ rt.ret = "value" => rt.value \in {"Module", "Instance"}
            /\ rt.ret = "throw" => rt.value = "CompileError"
            /\ rt.ret = "promise" => Returned.state # "none"

C8_Witness ==
    /\ rt.id # None
    /\ rt.pc = "done"
    /\ rt.ret = "value"
    /\ rt.value = "Instance"
    /\ rt.id[1] \in syncFiles
    /\ Len(rt.buf[1]) = MaxLen

\* C9: in each of the four loading cases and for both values of sync, the
\* bootstrap instantiates exactly when imports are supplied and compiles
\* only exactly when they are absent, and it uses the streaming functions
\* exactly in the case filepath present, not server-like.
C9_ImportsAndStreaming ==
    rt.pc # "idle" =>
        /\ rt.path = "readFile" <=> (rt.filepath # None /\ rt.isNode)
        /\ rt.path = "fetch" <=> (rt.filepath # None /\ ~rt.isNode)
        /\ rt.path = "inline" <=> rt.filepath = None
        /\ rt.api # "none" => (Streams(rt.api) <=> rt.path = "fetch")
        /\ (rt.api # "none" /\ rt.ret # "throw") =>
               (Instantiates(rt.api) <=> rt.imports)
        /\ rt.ret = "value" =>
               /\ rt.value = "Instance" <=> rt.imports
               /\ rt.value = "Module" <=> ~rt.imports
        /\ (rt.ret = "promise" /\ Returned.state = "fulfilled") =>
               /\ HasInstance(Returned.value) <=> rt.imports
               /\ Returned.value = "Module" <=> ~rt.imports

\* a copied file is loaded in a browser-like environment with sync = 1 and
\* imports: streamed and instantiated
C9_Witness ==
    /\ rt.pc = "done"
    /\ rt.sync = 1
    /\ rt.path = "fetch"
    /\ rt.imports
    /\ rt.api = "instantiateStreaming"
    /\ Returned.state = "fulfilled"
    /\ HasInstance(Returned.value)

\* C10: in the case filepath present, server-like, when the file read
\* reports an error the returned promise is rejected with that error, and
\* the resolve call the callback still makes does not change that.
C10_ReadErrorRejects ==
    (rt.path = "readFile" /\ rt.readError) =>
        /\ rt.pc = "done"
        /\ Returned.state = "rejected"
        /\ Returned.value = "ReadError"

\* the callback has also called _instantiateOrCompile on the missing buffer
C10_Witness ==
    /\ rt.path = "readFile"
    /\ rt.readError
    /\ rt.api # "none"
    /\ rt.wasm.state = "rejected"
    /\ rt.wasm.value = "TypeError"
    /\ rt.outer.value = "ReadError"

\* ------------------------------------------------ properties of the bundle

\* C5, the steps: when the base directory is known and made, generateBundle
\* starts one copy per registry entry, from the asset's path to
\* base/destination; a copy that has finished stays finished while the call
\* goes on, whatever happens to the others.
C5_Steps ==
    /\ (gb.pc = "makeDir" /\ gb'.pc = "copying") =>
           /\ DOMAIN gb'.tasks = DOMAIN copies
           /\ \A k \in DOMAIN copies :
                  /\ gb'.tasks[k].src = k
                  /\ gb'.tasks[k].dest =
                         gb.base[1] \o copies[k].dir \o <<copies[k].file>>
    /\ (gb.pc = "copying" /\ gb'.pc = "copying") =>
           /\ DOMAIN gb'.tasks = DOMAIN gb.tasks
           /\ \A k \in DOMAIN gb.tasks :
                  /\ gb'.tasks[k].src = gb.tasks[k].src
                  /\ gb'.tasks[k].dest = gb.tasks[k].dest
                  /\ gb.tasks[k].st = "finished" => gb'.tasks[k].st = "finished"

\* C5, the outcome: the call resolves only when every copy has finished, and
\* is rejected as soon as one copy has failed with a read or a write error.
C5_Outcome ==
    gb.pc = "copying" =>
        /\ gb.result = "resolved" =>
               \A k \in DOMAIN gb.tasks : gb.tasks[k].st = "finished"
        /\ (\E k \in DOMAIN gb.tasks : gb.tasks[k].st \in {"readError", "writeError"})
               => gb.result = "rejected"

\* C5: generateBundle issues one copy per registry entry from the source path
\* to base/destination, resolves only after all of them have finished,
\* rejects if any of them fails, and leaves the finished copies in place.
C5_CopyFlush == [](C5_Outcome) /\ [][C5_Steps]_vars

C5_Witness ==
    /\ gb.pc = "copying"
    /\ gb.result = "rejected"
    /\ \E j, k \in DOMAIN gb.tasks :
           /\ gb.tasks[j].st = "finished"
           /\ gb.tasks[k].st \in {"readError", "writeError"}

\* C6 as stated: the registry starts empty, a key once present is never
\* removed, and the destination under a key never changes.
C6_NeverOverwritten ==
    /\ copies = EmptyRegistry
    /\ [][\A k \in DOMAIN copies :
              k \in DOMAIN copies' /\ copies'[k] = copies[k]]_vars

\* C6 amended: the registry starts empty, a key once present is never
\* removed, and only load writes: an entry appears or changes only in a step
\* in which load read that asset, and is then the destination named after
\* the bytes read, so that a later load of a changed file overwrites it.
C6_GrowsLoadOverwrites ==
    /\ copies = EmptyRegistry
    /\ [][/\ DOMAIN copies \subseteq DOMAIN copies'
          /\ \A k \in DOMAIN copies' :
                 (k \notin DOMAIN copies \/ copies'[k] # copies[k]) =>
                     /\ LoadStep(k)
                     /\ copies'[k] = Destination(publicPath, buffer'[k][1])
                     /\ \A j \in DOMAIN copies \ {k} : copies'[j] = copies[j]
       ]_vars

\* a call of generateBundle still holds the destination an entry had before
\* a later load overwrote it
C6_Witness ==
    \E k \in DOMAIN copies \cap DOMAIN gb.tasks :
        /\ gb.tasks[k].output # copies[k]
        /\ stage[k] = "transformed"

====
